---- MODULE Spec2Model ----
(***************************************************************************)
(* Subzero Fleet Simulator (simulator/fleet_simulator.py).                 *)
(*                                                                         *)
(* FreezerSimulator replays a historical dataset as a fleet of five        *)
(* virtual freezers.  The model covers load_data / _prepare_unit_data      *)
(* (the per-personality row selection), _add_jitter, _get_reading (the     *)
(* per-device cursor and the personality overrides), send_reading and the  *)
(* run loop.                                                               *)
(*                                                                         *)
(* Numbers.  The program computes in floating point; the model computes    *)
(* the same expressions exactly, in fixed point:                           *)
(*   - temperatures read from the source are in thousandths of a degree    *)
(*     (-18.0 is -18000, idx / 1000.0 is idx);                             *)
(*   - a jitter fraction is in hundredths (0.05 is 5);                     *)
(*   - a draw of random.uniform(-1, 1) is k / UDen for k in -UDen..UDen;   *)
(*   - AddJitter(v, p, k) is v + v*p*u in units 1/JScale of v's unit.      *)
(* Of the reading's fields the model keeps device_id, temp_cabinet,        *)
(* door_open, fault and fault_id.                                          *)
(***************************************************************************)
EXTENDS Integers, Sequences, FiniteSets, TLC

VARIABLES
    df,             \* self.df: the loaded dataset, a sequence of rows
    unit_data,      \* self.unit_data: device_id -> selected rows
    unit_indices,   \* self.unit_indices: device_id -> stored cursor
    pc,             \* position of the process (main / run)
    test_mode,      \* run's test_mode argument
    iteration,      \* run's iteration counter
    unit_pos,       \* position of run's "for unit in FLEET_CONFIG" (1-based)
    reading,        \* run's local: the reading _get_reading returned
    local,          \* _get_reading's locals idx, base_temp, temp_cabinet (as of line 205)
    success,        \* run's local: what send_reading returned
    sink,           \* device ids of the readings handed to send_reading, in order
    sleeps,         \* number of time.sleep(interval) calls made
    probe,          \* the symbolic dataset of the dying-compressor runs
    jit             \* one _add_jitter call: its arguments, draw and result

vars == <<df, unit_data, unit_indices, pc, test_mode, iteration, unit_pos,
          reading, local, success, sink, sleeps, probe, jit>>

----------------------------------------------------------------------------
(* Bounds of the model *)

MaxRows == 2          \* enumerated datasets have 1..MaxRows rows
MaxIter == 3          \* cycles of the run loop that are explored
UDen == 2             \* draws of uniform(-1, 1) are k / UDen
MaxPct == 12          \* jitter fractions 0 .. MaxPct hundredths
MaxProbeLen == 15002  \* rows of the longest dying-compressor dataset

(* Program constants *)

MinFiltered == 100    \* "> 100" size floor of frost_builder and energy_hog

----------------------------------------------------------------------------
(* Fleet roster *)

FLEET_CONFIG ==
    << [device_id |-> "FREEZER_001", location_name |-> "London",
        personality |-> "healthy"],
       [device_id |-> "FREEZER_002", location_name |-> "Manchester",
        personality |-> "door_abuser"],
       [device_id |-> "FREEZER_003", location_name |-> "Glasgow",
        personality |-> "dying_compressor"],
       [device_id |-> "FREEZER_004", location_name |-> "Birmingham",
        personality |-> "frost_builder"],
       [device_id |-> "FREEZER_005", location_name |-> "Leeds",
        personality |-> "energy_hog"] >>

DeviceIds == { FLEET_CONFIG[i].device_id : i \in 1..Len(FLEET_CONFIG) }

UnitOf(id) == CHOOSE u \in { FLEET_CONFIG[i] : i \in 1..Len(FLEET_CONFIG) } :
                  u.device_id = id

----------------------------------------------------------------------------
(* Datasets.  A row holds the CSV columns the modelled code reads:         *)
(* frost_level in hundredths, P_comp_W in watts, T_cab_meas in             *)
(* thousandths of a degree.                                                *)

RowNormalClosed ==
    [fault |-> "NORMAL", fault_id |-> 0, door_open |-> 0,
     frost_level |-> 5, P_comp_W |-> 400, T_cab_meas |-> -18000]

RowNormalOpen ==
    [fault |-> "NORMAL", fault_id |-> 0, door_open |-> 1,
     frost_level |-> 50, P_comp_W |-> 600, T_cab_meas |-> -12000]

RowNormalFrostEdge ==
    [fault |-> "NORMAL", fault_id |-> 0, door_open |-> 0,
     frost_level |-> 10, P_comp_W |-> 500, T_cab_meas |-> -17000]

RowCompressorFail ==
    [fault |-> "COMPRESSOR_FAIL", fault_id |-> 3, door_open |-> 0,
     frost_level |-> 60, P_comp_W |-> 700, T_cab_meas |-> -4000]

RowKinds ==
    { RowNormalClosed, RowNormalOpen, RowNormalFrostEdge, RowCompressorFail }

\* every dataset of 1..MaxRows rows
Datasets == UNION { [1..n -> RowKinds] : n \in 1..MaxRows }

\* pattern p repeated to n rows
Cycle(p, n) == [i \in 1..n |-> p[((i - 1) % Len(p)) + 1]]

\* lengths around the size floor, for one- and two-row patterns
LongLens == { MinFiltered, MinFiltered + 1, MinFiltered + 2,
              2 * MinFiltered, 2 * MinFiltered + 1, 2 * MinFiltered + 2,
              2 * MinFiltered + 3 }

LongDatasets == { Cycle(p, n) : p \in Datasets, n \in LongLens }

----------------------------------------------------------------------------
(* _prepare_unit_data *)

\* df[mask] followed by reset_index(drop=True) is SelectSeq: the rows
\* satisfying the mask, in their original order, renumbered from 0

\* number of rows with P_comp_W < v, and with P_comp_W <= v
CountBelow(data, v) ==
    Cardinality({ i \in 1..Len(data) : data[i].P_comp_W < v })

CountAtMost(data, v) ==
    Cardinality({ i \in 1..Len(data) : data[i].P_comp_W <= v })

\* k-th smallest P_comp_W of the dataset (k is 1-based)
KthPower(data, k) ==
    CHOOSE v \in { data[i].P_comp_W : i \in 1..Len(data) } :
        /\ CountBelow(data, v) < k
        /\ CountAtMost(data, v) >= k

\* twice self.df["P_comp_W"].median(): pandas takes the middle value, or
\* the mean of the two middle values of an even number of rows
Median2(data) ==
    LET n == Len(data) IN
    IF n % 2 = 1
    THEN 2 * KthPower(data, (n + 1) \div 2)
    ELSE KthPower(data, n \div 2) + KthPower(data, (n \div 2) + 1)

HealthyData(data) ==
    SelectSeq(data, LAMBDA r : r.fault = "NORMAL" /\ r.door_open = 0)

NormalData(data) == SelectSeq(data, LAMBDA r : r.fault = "NORMAL")

FrostBuilderDataGE(data) ==
    LET frosty == SelectSeq(data, LAMBDA r : r.frost_level > 10) IN
    IF Len(frosty) >= MinFiltered THEN frosty ELSE data

FrostBuilderData(data) ==
    LET frosty == SelectSeq(data, LAMBDA r : r.frost_level > 10) IN
    IF Len(frosty) > MinFiltered THEN frosty ELSE data

EnergyHogData(data) ==
    LET m2 == Median2(data)
        hungry == SelectSeq(data, LAMBDA r : 2 * r.P_comp_W > m2) IN
    IF Len(hungry) > MinFiltered THEN hungry ELSE data

PrepareUnitData(personality, data) ==
    CASE personality = "healthy" -> HealthyData(data)
      [] personality = "door_abuser" -> NormalData(data)
      [] personality = "dying_compressor" -> NormalData(data)
      [] personality = "frost_builder" -> FrostBuilderData(data)
      [] personality = "energy_hog" -> EnergyHogData(data)
      [] OTHER -> data

----------------------------------------------------------------------------
(* _add_jitter *)

Draws == (-UDen)..UDen

JScale == 100 * UDen

AddJitterWide(value, jitter_pct, k) ==
    value * JScale + value * jitter_pct * k * 2

\* value + value * jitter_pct * random.uniform(-1, 1), in units 1/JScale
AddJitter(value, jitter_pct, k) == value * JScale + value * jitter_pct * k

Min(a, b) == IF a < b THEN a ELSE b

\* round(x, ndigits): x given in units 1/q of the last kept digit
RoundHalfEven(x, q) ==
    LET lo == x \div q
        r == x % q IN
    IF 2 * r < q THEN lo
    ELSE IF 2 * r > q THEN lo + 1
    ELSE IF lo % 2 = 0 THEN lo ELSE lo + 1

----------------------------------------------------------------------------
(* _get_reading *)

NoReading == [device_id |-> "none"]

NoLocal == [idx |-> -1]

NoRow == [fault |-> "none"]

\* One draw per random call the modelled fields depend on: door is
\* random.random() < 0.3, k1 the draw of the personality's cabinet
\* temperature jitter, k2 the draw of the final cabinet temperature jitter
DrawSets(personality) ==
    [door : IF personality = "door_abuser" THEN BOOLEAN ELSE {FALSE},
     k1 : Draws, k2 : Draws]

CursorIdxNoWrapAtEnd(stored, len) == IF stored > len THEN 0 ELSE stored

\* idx = self.unit_indices[device_id]; if idx >= len(data): idx = 0
CursorIdx(stored, len) == IF stored >= len THEN 0 ELSE stored

AdvanceIndexByTwo(idx) == idx + 2

\* self.unit_indices[device_id] = idx + 1
AdvanceIndex(idx) == idx + 1

DyingBaseTempFast(idx) == -10000 + (idx * 10)

\* base_temp = -10.0 + (idx / 1000.0)
DyingBaseTemp(idx) == -10000 + idx

DyingFailedAboveFreezing(temp) == temp > 0

\* if temp_cabinet > -5
DyingFailed(temp) == temp > (-5000) * JScale

\* The locals after the personality branch (line 205): temp_cabinet is in
\* units 1/JScale of a thousandth of a degree; base_temp is the value line
\* 180 passes to _add_jitter, min(base_temp, 5.0)
Overrides(personality, row, idx, dr) ==
    LET base == [temp_cabinet |-> row.T_cab_meas * JScale,
                 door_open |-> (row.door_open # 0),
                 fault |-> row.fault,
                 fault_id |-> row.fault_id,
                 base_temp |-> "unset"] IN
    CASE personality = "healthy" ->
           [base EXCEPT !.temp_cabinet = AddJitter(-18000, 5, dr.k1),
                        !.door_open = FALSE,
                        !.fault = "NORMAL",
                        !.fault_id = 0]
      [] personality = "door_abuser" ->
           [base EXCEPT !.door_open = dr.door,
                        !.temp_cabinet = IF dr.door
                                         THEN AddJitter(-12000, 10, dr.k1)
                                         ELSE AddJitter(-17000, 5, dr.k1),
                        !.fault = "NORMAL",
                        !.fault_id = 0]
      [] personality = "dying_compressor" ->
           LET base_temp == DyingBaseTemp(idx)
               temp == AddJitter(Min(base_temp, 5000), 10, dr.k1)
               failed == DyingFailed(temp) IN
           [base EXCEPT !.base_temp = Min(base_temp, 5000),
                        !.temp_cabinet = temp,
                        !.fault = IF failed THEN "COMPRESSOR_FAIL" ELSE "NORMAL",
                        !.fault_id = IF failed THEN 3 ELSE 0]
      [] personality = "frost_builder" ->
           [base EXCEPT !.temp_cabinet = AddJitter(-16000, 5, dr.k1),
                        !.fault = "NORMAL",
                        !.fault_id = 0]
      [] personality = "energy_hog" ->
           [base EXCEPT !.temp_cabinet = AddJitter(-17000, 5, dr.k1),
                        !.fault = "NORMAL",
                        !.fault_id = 0]
      [] OTHER -> base

\* The reading built from row at cursor index idx (lines 145-228);
\* temp_cabinet of the reading is round(., 2), in hundredths of a degree
Synthesize(unit, row, idx, dr) ==
    LET o == Overrides(unit.personality, row, idx, dr)
        final == AddJitter(o.temp_cabinet, 1, dr.k2) IN
    [reading |-> [device_id |-> unit.device_id,
                  location_name |-> unit.location_name,
                  temp_cabinet |-> RoundHalfEven(final, 10 * JScale * JScale),
                  door_open |-> o.door_open,
                  fault |-> o.fault,
                  fault_id |-> o.fault_id],
     local |-> [idx |-> idx,
                base_temp |-> o.base_temp,
                temp_cabinet |-> o.temp_cabinet]]

\* One call of _get_reading on a subsequence of len rows; row is the row
\* at the cursor index when there is one.  data.iloc[idx] raises IndexError
\* when idx is not a position of data; the cursor is then left as line 140
\* set it.
GetReadingResult(unit, stored, len, row, dr) ==
    LET idx == CursorIdx(stored, len) IN
    IF idx < len
    THEN LET s == Synthesize(unit, row, idx, dr) IN
         [raised |-> FALSE, stored |-> AdvanceIndex(idx),
          reading |-> s.reading, local |-> s.local]
    ELSE [raised |-> TRUE, stored |-> idx,
          reading |-> NoReading, local |-> NoLocal]

----------------------------------------------------------------------------
(* The process: main, load_data, run *)

NoProbe == [pattern |-> << >>, len |-> 0]

NoJit == [called |-> FALSE]

\* FreezerSimulator.__init__
Init ==
    /\ df = << >>
    /\ unit_data = << >>
    /\ unit_indices = << >>
    /\ pc = "new"
    /\ test_mode = FALSE
    /\ iteration = 0
    /\ unit_pos = 0
    /\ reading = NoReading
    /\ local = NoLocal
    /\ success = FALSE
    /\ sink = << >>
    /\ sleeps = 0
    /\ probe = NoProbe
    /\ jit = NoJit

\* load_data on a dataset of the family D
LoadDataFrom(D) ==
    /\ pc = "new"
    /\ \E d \in D :
         /\ df' = d
         /\ unit_data' = [id \in DeviceIds |->
                             PrepareUnitData(UnitOf(id).personality, d)]
    /\ unit_indices' = [id \in DeviceIds |-> 0]
    /\ pc' = "loaded"
    /\ UNCHANGED <<test_mode, iteration, unit_pos, reading, local, success,
                   sink, sleeps, probe, jit>>

LoadData == LoadDataFrom(Datasets)

\* run(interval, test_mode): the code before the loop
Run ==
    /\ pc = "loaded"
    /\ \E tm \in BOOLEAN : test_mode' = tm
    /\ iteration' = 0
    /\ pc' = "iter"
    /\ UNCHANGED <<df, unit_data, unit_indices, unit_pos, reading, local,
                   success, sink, sleeps, probe, jit>>

\* while True: iteration += 1; the for loop starts
BeginIteration ==
    /\ pc = "iter"
    /\ iteration < MaxIter
    /\ iteration' = iteration + 1
    /\ unit_pos' = 1
    /\ pc' = "get"
    /\ UNCHANGED <<df, unit_data, unit_indices, test_mode, reading, local,
                   success, sink, sleeps, probe, jit>>

\* reading = self._get_reading(unit)
GetReading ==
    /\ pc = "get"
    /\ LET unit == FLEET_CONFIG[unit_pos]
           id == unit.device_id
           data == unit_data[id]
           idx == CursorIdx(unit_indices[id], Len(data))
           row == IF idx < Len(data) THEN data[idx + 1] ELSE NoRow IN
       \E dr \in DrawSets(unit.personality) :
         LET res == GetReadingResult(unit, unit_indices[id], Len(data),
                                     row, dr) IN
         /\ unit_indices' = [unit_indices EXCEPT ![id] = res.stored]
         /\ reading' = res.reading
         /\ local' = res.local
         /\ pc' = IF res.raised THEN "index_error" ELSE "send"
    /\ UNCHANGED <<df, unit_data, test_mode, iteration, unit_pos, success,
                   sink, sleeps, probe, jit>>

SendOutcomes == {"status_200", "status_other", "request_exception"}

\* what the for loop does after the status line is printed: the body's
\* reading is dropped and the loop moves to the next unit, or ends
AfterSend ==
    /\ reading' = NoReading
    /\ local' = NoLocal
    /\ IF unit_pos < Len(FLEET_CONFIG)
       THEN /\ unit_pos' = unit_pos + 1
            /\ pc' = "get"
       ELSE /\ unit_pos' = unit_pos
            /\ pc' = "cycle_end"

SendReadingUncaught ==
    /\ pc = "send"
    /\ \E outcome \in SendOutcomes :
         /\ success' = (outcome = "status_200")
         /\ IF outcome = "request_exception"
            THEN /\ pc' = "send_error"
                 /\ UNCHANGED <<unit_pos, reading, local>>
            ELSE AfterSend
    /\ sink' = Append(sink, reading.device_id)
    /\ UNCHANGED <<df, unit_data, unit_indices, test_mode, iteration, sleeps,
                   probe, jit>>

\* success = self.send_reading(reading), and the status line
SendReading ==
    /\ pc = "send"
    /\ \E outcome \in SendOutcomes :
         success' = (outcome = "status_200")
    /\ sink' = Append(sink, reading.device_id)
    /\ AfterSend
    /\ UNCHANGED <<df, unit_data, unit_indices, test_mode, iteration, sleeps,
                   probe, jit>>

\* if test_mode: break
EndCycle ==
    /\ pc = "cycle_end"
    /\ pc' = IF test_mode THEN "done" ELSE "sleep"
    /\ UNCHANGED <<df, unit_data, unit_indices, test_mode, iteration, unit_pos,
                   reading, local, success, sink, sleeps, probe, jit>>

\* time.sleep(interval)
Sleep ==
    /\ pc = "sleep"
    /\ sleeps' = sleeps + 1
    /\ pc' = "iter"
    /\ UNCHANGED <<df, unit_data, unit_indices, test_mode, iteration, unit_pos,
                   reading, local, success, sink, probe, jit>>

Next ==
    \/ LoadData
    \/ Run
    \/ BeginIteration
    \/ GetReading
    \/ SendReading
    \/ EndCycle
    \/ Sleep

Spec == Init /\ [][Next]_vars

----------------------------------------------------------------------------
(* load_data alone, on datasets around the size floor *)

LoadLongData == LoadDataFrom(LongDatasets)

NextSelect == LoadLongData

SpecSelect == Init /\ [][NextSelect]_vars

----------------------------------------------------------------------------
(* The dying compressor on long datasets.  The dataset is Cycle(pattern,   *)
(* len) for a pattern of NORMAL rows, so the device's subsequence is the   *)
(* whole dataset; it is kept as (pattern, len) instead of row by row.      *)
(* The runs start in the state load_data leaves and call _get_reading for  *)
(* FREEZER_003 again and again; the final cabinet jitter, which plays no   *)
(* part in the fault decision, takes its central draw.                     *)

ProbePatterns == { <<RowNormalClosed, RowNormalOpen, RowNormalFrostEdge>> }

ProbeLens == { 4445, 4446, MaxProbeLen }

DyingUnit == FLEET_CONFIG[3]

InitDying ==
    /\ df = << >>
    /\ unit_data = << >>
    /\ unit_indices = [id \in DeviceIds |-> 0]
    /\ pc = "probe"
    /\ test_mode = FALSE
    /\ iteration = 0
    /\ unit_pos = 3
    /\ reading = NoReading
    /\ local = NoLocal
    /\ success = FALSE
    /\ sink = << >>
    /\ sleeps = 0
    /\ probe \in [pattern : ProbePatterns, len : ProbeLens]
    /\ jit = NoJit

DyingGetReading ==
    /\ pc = "probe"
    /\ LET id == DyingUnit.device_id
           idx == CursorIdx(unit_indices[id], probe.len)
           row == IF idx < probe.len
                  THEN probe.pattern[(idx % Len(probe.pattern)) + 1]
                  ELSE NoRow IN
       \E dr \in { d \in DrawSets(DyingUnit.personality) : d.k2 = 0 } :
         LET res == GetReadingResult(DyingUnit, unit_indices[id], probe.len,
                                     row, dr) IN
         /\ unit_indices' = [unit_indices EXCEPT ![id] = res.stored]
         /\ reading' = res.reading
         /\ local' = res.local
         /\ pc' = IF res.raised THEN "index_error" ELSE "probe"
    /\ UNCHANGED <<df, unit_data, test_mode, iteration, unit_pos, success,
                   sink, sleeps, probe, jit>>

NextDying == DyingGetReading

SpecDying == InitDying /\ [][NextDying]_vars

----------------------------------------------------------------------------
(* _add_jitter alone.  The values are those the synthesizer passes, in     *)
(* thousandths: the personalities' temperatures, frost level, COP, power   *)
(* and frequency, and base temperatures of the dying compressor.           *)

JitterValues == { -18000, -17000, -16000, -12000, 50, 600, 1500,
                  95000, 650000, 700000, -10000, -5000, 0, 5000 }

JitterPcts == (0..MaxPct) \cup { 100, 150 }

InitJitter ==
    /\ df = << >>
    /\ unit_data = << >>
    /\ unit_indices = << >>
    /\ pc = "jitter"
    /\ test_mode = FALSE
    /\ iteration = 0
    /\ unit_pos = 0
    /\ reading = NoReading
    /\ local = NoLocal
    /\ success = FALSE
    /\ sink = << >>
    /\ sleeps = 0
    /\ probe = NoProbe
    /\ jit \in [called : {FALSE}, value : JitterValues, pct : JitterPcts]

AddJitterCall ==
    /\ pc = "jitter"
    /\ ~jit.called
    /\ \E k \in Draws :
         jit' = [called |-> TRUE, value |-> jit.value, pct |-> jit.pct,
                 u |-> k, result |-> AddJitter(jit.value, jit.pct, k)]
    /\ UNCHANGED <<df, unit_data, unit_indices, pc, test_mode, iteration,
                   unit_pos, reading, local, success, sink, sleeps, probe>>

NextJitter == AddJitterCall

SpecJitter == InitJitter /\ [][NextJitter]_vars

----------------------------------------------------------------------------
(* Claims *)

CurrentId == FLEET_CONFIG[unit_pos].device_id

CurrentLen == Len(unit_data[CurrentId])

RosterIds == [i \in 1..Len(FLEET_CONFIG) |-> FLEET_CONFIG[i].device_id]

\* C1: once a non-empty dataset is loaded, every roster device's stored
\* subsequence is non-empty.
C1_SubsequencesNonEmpty ==
    (pc # "new" /\ Len(df) >= 1) =>
        \A id \in DeviceIds : Len(unit_data[id]) >= 1

\* C2: for a device whose subsequence has L >= 1 rows, the n-th call of
\* _get_reading returns a reading of the row at index (n - 1) mod L: the
\* indices 0 .. L-1 in order, then 0 again, whatever the other devices'
\* lengths are.  (The run loop makes a device's n-th call in iteration n.)
C2_CursorWraps ==
    /\ pc = "send" =>
          /\ CurrentLen >= 1
          /\ reading.device_id = CurrentId
          /\ local.idx = (iteration - 1) % CurrentLen
    /\ pc = "index_error" => CurrentLen = 0

C2_Witness ==
    /\ pc = "send"
    /\ CurrentLen >= 2
    /\ iteration = CurrentLen + 1
    /\ local.idx = 0
    /\ \E id \in DeviceIds : Len(unit_data[id]) # CurrentLen

\* C3: after load_data, no call of _get_reading raises an out-of-range
\* error to its caller.
C3_NoBoundsError == pc # "index_error"

\* C4: every stored cursor is an integer between 0 and the length of the
\* device's subsequence, and a call that finds the stored cursor equal to
\* the length resets it to 0 before it reads a row: the row read is row 0.
C4_CursorInvariant ==
    /\ [](\A id \in DOMAIN unit_indices :
              /\ unit_indices[id] \in Nat
              /\ unit_indices[id] <= Len(unit_data[id]))
    /\ [][(pc = "get" /\ unit_indices[CurrentId] = CurrentLen) =>
              IF CurrentLen = 0
              THEN pc' = "index_error" /\ unit_indices'[CurrentId] = 0
              ELSE /\ pc' = "send"
                   /\ local'.idx = 0
                   /\ unit_indices'[CurrentId] = 1]_vars

C4_Witness ==
    /\ pc = "get"
    /\ CurrentLen >= 1
    /\ unit_indices[CurrentId] = CurrentLen

\* C5: a failed send (success is False) neither stops the loop nor is
\* retried: the reading was handed over once, the loop moves on to the next
\* device or ends the cycle, no cursor changes, and the failing device's
\* cursor stands one past the index that was read, as for any send.
C5_FailureIsolated ==
    /\ [](pc = "send" => unit_indices[CurrentId] = local.idx + 1)
    /\ [](sink # << >> =>
              \/ pc \in {"get", "send", "cycle_end", "sleep", "iter"}
              \/ pc = "done" /\ test_mode)
    /\ [][(pc = "send" /\ ~success') =>
              /\ unit_indices' = unit_indices
              /\ sink' = Append(sink, CurrentId)
              /\ IF unit_pos < Len(FLEET_CONFIG)
                 THEN pc' = "get" /\ unit_pos' = unit_pos + 1
                 ELSE pc' = "cycle_end"]_vars

C5_Witness ==
    /\ pc = "send"
    /\ ~success
    /\ Len(sink) > Len(FLEET_CONFIG)
    /\ unit_pos > 1

\* C6: a test-mode run ends having handed exactly one reading per roster
\* device to the sink, in roster order, without sleeping; a run that is not
\* in test mode never ends and has slept once per completed cycle.
C6_OneShot ==
    /\ (test_mode /\ pc \in {"done", "index_error"}) =>
          /\ pc = "done"
          /\ sink = RosterIds
          /\ sleeps = 0
    /\ (~test_mode) => pc \notin {"done", "index_error"}
    /\ (~test_mode /\ pc = "iter") => sleeps = iteration

\* C7: when more than 100 rows have frost_level > 0.1, the frost_builder's
\* subsequence is exactly those rows in their original order; otherwise it
\* is the whole dataset in its original order.
C7_FrostBuilderSelection ==
    pc = "loaded" =>
        LET frosty == { i \in 1..Len(df) : df[i].frost_level > 10 }
            rank == [i \in frosty |-> Cardinality({ m \in frosty : m < i })]
            data == unit_data["FREEZER_004"] IN
        IF Cardinality(frosty) > 100
        THEN /\ Len(data) = Cardinality(frosty)
             /\ \A i \in frosty : data[rank[i] + 1] = df[i]
        ELSE data = df

C7_Witness ==
    /\ pc = "loaded"
    /\ Cardinality({ i \in 1..Len(df) : df[i].frost_level > 10 }) = 101
    /\ Len(df) > 101
    /\ Len(unit_data["FREEZER_004"]) = 101

\* v*(1-p) and v*(1+p) in the unit of an _add_jitter result
JitterLow == jit.value * (100 - jit.pct) * UDen

JitterHigh == jit.value * (100 + jit.pct) * UDen

\* C8 as stated: the result r of _add_jitter(v, p) satisfies
\* v*(1-p) <= r <= v*(1+p), and r = v when p = 0.
C8_JitterBoundAsStated ==
    jit.called =>
        /\ JitterLow <= jit.result
        /\ jit.result <= JitterHigh
        /\ (jit.pct = 0 => jit.result = jit.value * JScale)

\* C8 amended: r lies between v*(1-p) and v*(1+p): for v >= 0,
\* v*(1-p) <= r <= v*(1+p); for v < 0, v*(1+p) <= r <= v*(1-p);
\* and r = v when p = 0.
C8_JitterBound ==
    jit.called =>
        /\ (jit.value >= 0 =>
               JitterLow <= jit.result /\ jit.result <= JitterHigh)
        /\ (jit.value < 0 =>
               JitterHigh <= jit.result /\ jit.result <= JitterLow)
        /\ (jit.pct = 0 => jit.result = jit.value * JScale)

C8_Witness ==
    /\ jit.called
    /\ jit.value < 0
    /\ jit.pct > 0
    /\ jit.result = JitterHigh

IsDyingReading == reading.device_id = DyingUnit.device_id

\* C9: a dying_compressor reading at cursor index idx has pre-jitter base
\* temperature min(-10.0 + idx/1000, 5.0), never above 5.0 and not
\* decreasing as idx grows; its cabinet temperature is jitter(base, 0.1);
\* and it is (COMPRESSOR_FAIL, 3) exactly when that temperature exceeds
\* -5.0, else (NORMAL, 0).
C9_DyingCompressorFault ==
    /\ [](IsDyingReading =>
            /\ local.base_temp = Min(-10000 + local.idx, 5000)
            /\ local.base_temp <= 5000
            /\ \E k \in Draws :
                 local.temp_cabinet =
                     local.base_temp * JScale + local.base_temp * 10 * k
            /\ IF local.temp_cabinet > (-5000) * JScale
               THEN reading.fault = "COMPRESSOR_FAIL" /\ reading.fault_id = 3
               ELSE reading.fault = "NORMAL" /\ reading.fault_id = 0)
    /\ [][(IsDyingReading /\ IsDyingReading' /\ local'.idx > local.idx) =>
              local'.base_temp >= local.base_temp]_vars

C9_Witness ==
    /\ IsDyingReading
    /\ local.idx > 15000
    /\ local.base_temp = 5000
    /\ reading.fault = "COMPRESSOR_FAIL"

DyingOutcomes(idx) ==
    { Overrides("dying_compressor", RowNormalClosed, idx, dr).fault :
          dr \in DrawSets("dying_compressor") }

\* C10: a dying_compressor reading at idx <= 4444 is always (NORMAL, 0), one
\* at idx >= 5455 is always (COMPRESSOR_FAIL, 3), for 4445 <= idx <= 5454
\* both outcomes occur depending on the draw; a device whose subsequence
\* has at most 4445 rows never reports COMPRESSOR_FAIL.
C10_FaultThresholds ==
    IsDyingReading =>
        /\ (local.idx <= 4444 =>
               reading.fault = "NORMAL" /\ reading.fault_id = 0)
        /\ (local.idx >= 5455 =>
               reading.fault = "COMPRESSOR_FAIL" /\ reading.fault_id = 3)
        /\ (local.idx \in 4445..5454 =>
               DyingOutcomes(local.idx) = {"NORMAL", "COMPRESSOR_FAIL"})
        /\ (probe.len <= 4445 => reading.fault = "NORMAL")

C10_Witness ==
    /\ IsDyingReading
    /\ local.idx = 5455
    /\ local.temp_cabinet =
           local.base_temp * JScale + local.base_temp * 10 * UDen
    /\ reading.fault = "COMPRESSOR_FAIL"

====
